---------------------------- MODULE Spec2Model ----------------------------
(***************************************************************************)
(* Model of the CSV loader (ingest_data.py) and the query runner           *)
(* (analytics_queries.py).                                                 *)
(*                                                                         *)
(* Python strings are modelled as sequences of one-character strings, so   *)
(* that len(), slicing, startswith/endswith, int() and float() are         *)
(* computed character by character.                                        *)
(***************************************************************************)
EXTENDS Integers, Sequences, FiniteSets, TLC

VARIABLES
    values,         \* infer_column_type: the sample passed in
    sql_type,       \* infer_column_type: the value returned ("unset" before)
    table_name,     \* create_table_from_csv: the table to create
    csv_file,       \* create_table_from_csv: the file's rows, the header first
    statement,      \* create_table_from_csv: the CREATE TABLE it last emitted
    baseline,       \* the CREATE TABLE emitted before the file was rewritten
    step,           \* "ready", "created", "rewritten" or "recreated"
    program,        \* the entry point running: "ingest" or "analytics"
    pc,             \* its position
    conn,           \* the local conn: "unbound", "open" or "closed"
    data_exists,    \* data_path.exists() / db_path.exists()
    csv_files,      \* data_path.glob('*.csv'), in the order globbed
    disk,           \* the store's committed tables
    work,           \* the tables as the connection sees them
    in_transaction, \* conn.in_transaction
    idx,            \* the file the loop is at
    completed,      \* stems of the files processed without an exception
    failed,         \* stems of the files whose processing raised
    last,           \* the file processed last: stem, exception, table before
    committed,      \* conn.commit() returned in this run
    summary,        \* the DATABASE SUMMARY printed: row count per table
    run_no,         \* 1, or 2 once the loader has been run again
    first_run,      \* what the first run left: row counts, committed
    result,         \* execute_query: cursor.description and fetchall()
    printed         \* execute_query: what it printed

inferVars == <<values, sql_type>>
createVars == <<table_name, csv_file, statement, baseline, step>>
pipeVars == <<program, pc, conn, data_exists, csv_files, disk, work,
              in_transaction, idx, completed, failed, last, committed,
              summary, run_no, first_run, result, printed>>
vars == <<values, sql_type, table_name, csv_file, statement, baseline, step,
          program, pc, conn, data_exists, csv_files, disk, work,
          in_transaction, idx, completed, failed, last, committed,
          summary, run_no, first_run, result, printed>>

---------------------------------------------------------------------------
(* Strings *)

Digits == {"0", "1", "2", "3", "4", "5", "6", "7", "8", "9"}

\* s[a:b] of Python for 0 <= a, with 1-based inclusive positions a+1..b
Slice(s, a, b) == SubSeq(s, a + 1, IF b > Len(s) THEN Len(s) ELSE b)

\* str.endswith
EndsWith(s, suffix) ==
    /\ Len(suffix) <= Len(s)
    /\ SubSeq(s, Len(s) - Len(suffix) + 1, Len(s)) = suffix

\* str.startswith
StartsWith(s, prefix) ==
    /\ Len(prefix) <= Len(s)
    /\ SubSeq(s, 1, Len(prefix)) = prefix

\* s[:-1]
DropLast(s) == IF Len(s) = 0 THEN s ELSE SubSeq(s, 1, Len(s) - 1)

RECURSIVE LStrip(_)
LStrip(s) == IF Len(s) > 0 /\ s[1] = " " THEN LStrip(Tail(s)) ELSE s

RECURSIVE RStrip(_)
RStrip(s) == IF Len(s) > 0 /\ s[Len(s)] = " " THEN RStrip(DropLast(s)) ELSE s

\* surrounding whitespace, which int() and float() both ignore
Strip(s) == RStrip(LStrip(s))

\* an optional leading sign removed
Unsign(s) == IF Len(s) > 0 /\ s[1] \in {"+", "-"} THEN Tail(s) ELSE s

\* digit ("_"? digit)* : the digit groups int() and float() accept
IsDigitPart(s) ==
    /\ Len(s) > 0
    /\ s[1] \in Digits
    /\ s[Len(s)] \in Digits
    /\ \A i \in 1..Len(s) : s[i] \in Digits \cup {"_"}
    /\ \A i \in 1..(Len(s) - 1) : ~(s[i] = "_" /\ s[i + 1] = "_")

\* the first position of a character of cs in s, 0 when there is none
FirstOf(s, cs) ==
    IF \E i \in 1..Len(s) : s[i] \in cs
    THEN CHOOSE i \in 1..Len(s) : s[i] \in cs /\ \A j \in 1..(i - 1) : s[j] \notin cs
    ELSE 0

\* int(s) does not raise ValueError
ParsesInt(s) == IsDigitPart(Unsign(Strip(s)))

\* digits, digits "." [digits], or "." digits
IsMantissa(m) ==
    LET p == FirstOf(m, {"."})
        a == SubSeq(m, 1, p - 1)
        b == SubSeq(m, p + 1, Len(m))
    IN  IF p = 0 THEN IsDigitPart(m)
        ELSE /\ a = <<>> \/ IsDigitPart(a)
             /\ b = <<>> \/ IsDigitPart(b)
             /\ ~(a = <<>> /\ b = <<>>)

\* float(s) does not raise ValueError
ParsesFloat(s) ==
    LET t == Unsign(Strip(s))
        p == FirstOf(t, {"e", "E"})
    IN  \/ t \in {<<"n", "a", "n">>, <<"i", "n", "f">>,
                  <<"i", "n", "f", "i", "n", "i", "t", "y">>}
        \/ /\ p = 0
           /\ IsMantissa(t)
        \/ /\ p > 0
           /\ IsMantissa(SubSeq(t, 1, p - 1))
           /\ IsDigitPart(Unsign(SubSeq(t, p + 1, Len(t))))

---------------------------------------------------------------------------
(* infer_column_type *)

\* values = [v for v in values if v]
NonEmpty(v) == v # <<>>
RemoveEmpty(vs) == SelectSeq(vs, NonEmpty)

\* for val in values: int(val)   -- FALSE when a ValueError is raised
RECURSIVE TryInt(_, _)
TryInt(vs, i) ==
    IF i > Len(vs) THEN TRUE
    ELSE IF ~ParsesInt(vs[i]) THEN FALSE
    ELSE TryInt(vs, i + 1)

\* for val in values: float(val) -- FALSE when a ValueError is raised
RECURSIVE TryFloat(_, _)
TryFloat(vs, i) ==
    IF i > Len(vs) THEN TRUE
    ELSE IF ~ParsesFloat(vs[i]) THEN FALSE
    ELSE TryFloat(vs, i + 1)

\* a slip that keeps the empty strings in the sample
infer_column_type_unfiltered(vs) ==
    IF vs = <<>> THEN "TEXT"
    ELSE IF TryInt(vs, 1) THEN "INTEGER"
    ELSE IF TryFloat(vs, 1) THEN "REAL"
    ELSE "TEXT"

\* a slip that tries float() before int()
infer_column_type_float_first(vs) ==
    LET kept == RemoveEmpty(vs)
    IN  IF kept = <<>> THEN "TEXT"
        ELSE IF TryFloat(kept, 1) THEN "REAL"
        ELSE IF TryInt(kept, 1) THEN "INTEGER"
        ELSE "TEXT"

infer_column_type(vs) ==
    LET kept == RemoveEmpty(vs)
    IN  IF kept = <<>> THEN "TEXT"
        ELSE IF TryInt(kept, 1) THEN "INTEGER"
        ELSE IF TryFloat(kept, 1) THEN "REAL"
        ELSE "TEXT"

---------------------------------------------------------------------------
(* Inputs of the type inference *)

MaxSample == 3

\* column values as csv.reader yields them
SampleValues ==
    { <<>>, <<" ">>, <<"1">>, <<"-", "2">>, <<" ", "3", " ">>,
      <<"1", "_", "0">>, <<"2", ".", "5">>, <<".", "5">>, <<"1", "e", "3">>,
      <<"n", "a", "n">>, <<"x">>, <<"1", "x">>, <<"-">>, <<"1", ".", "5", "e">> }

SeqsUpTo(S, n) == UNION { [1..k -> S] : k \in 0..n }

InferIdle == values = <<>> /\ sql_type = "unset"

NoStatement == [raised |-> "", table |-> <<>>, columns |-> <<>>]
NoResult == [columns |-> <<>>, rows |-> <<>>]
NothingPrinted ==
    [no_results |-> FALSE, col_widths |-> <<>>, lines |-> <<>>, total |-> 0]

CreateIdle ==
    /\ table_name = <<>>
    /\ csv_file = <<>>
    /\ statement = NoStatement
    /\ baseline = NoStatement
    /\ step = "idle"

PipeIdle ==
    /\ program = "none"
    /\ pc = "idle"
    /\ conn = "unbound"
    /\ data_exists = FALSE
    /\ csv_files = <<>>
    /\ disk = <<>>
    /\ work = <<>>
    /\ in_transaction = FALSE
    /\ idx = 0
    /\ completed = {}
    /\ failed = {}
    /\ last = <<>>
    /\ committed = FALSE
    /\ summary = <<>>
    /\ run_no = 0
    /\ first_run = <<>>
    /\ result = NoResult
    /\ printed = NothingPrinted

InitInfer ==
    /\ values \in SeqsUpTo(SampleValues, MaxSample)
    /\ sql_type = "unset"
    /\ CreateIdle
    /\ PipeIdle

InferColumnType ==
    /\ sql_type = "unset"
    /\ sql_type' = infer_column_type(values)
    /\ UNCHANGED <<values, createVars, pipeVars>>

NextInfer == InferColumnType

SpecInfer == InitInfer /\ [][NextInfer]_vars

---------------------------------------------------------------------------
(* Claims about infer_column_type *)

IsBlank(v) == \A i \in 1..Len(v) : v[i] = " "
NotBlank(v) == ~IsBlank(v)

AllInt(vs) == \A i \in 1..Len(vs) : ParsesInt(vs[i])
AllFloat(vs) == \A i \in 1..Len(vs) : ParsesFloat(vs[i])

\* C5: for a sample with at least one non-empty value the result is INTEGER
\* iff every non-empty value parses as an integer, REAL iff every non-empty
\* value parses as a float but not all as integers, TEXT otherwise; the
\* result is always one of the three types.
C5_Classification ==
    sql_type # "unset" =>
        /\ sql_type \in {"INTEGER", "REAL", "TEXT"}
        /\ RemoveEmpty(values) # <<>> =>
            /\ sql_type = "INTEGER" <=> AllInt(RemoveEmpty(values))
            /\ sql_type = "REAL" <=>
                   AllFloat(RemoveEmpty(values)) /\ ~AllInt(RemoveEmpty(values))
            /\ sql_type = "TEXT" <=> ~AllFloat(RemoveEmpty(values))

\* a mixed sample (an integer and a non-integer float) has been classified
C5_Witness ==
    /\ sql_type = "REAL"
    /\ \E i \in 1..Len(values) : ParsesInt(values[i])
    /\ \E i \in 1..Len(values) : values[i] # <<>> /\ ~ParsesInt(values[i])
    /\ \E i \in 1..Len(values) : values[i] = <<>>

\* C6 as stated: the result is that of the sample with its empty and blank
\* (whitespace-only) values removed, and a sample of only empty/blank values
\* yields TEXT.
C6_BlankExcluded ==
    sql_type # "unset" =>
        /\ sql_type = infer_column_type(SelectSeq(values, NotBlank))
        /\ (\A i \in 1..Len(values) : IsBlank(values[i])) => sql_type = "TEXT"

\* C6 amended: the result is that of the sample with its empty (zero-length)
\* values removed; whitespace-only values stay in the sample, where they
\* parse as neither type, so a sample of only empty/blank values still
\* yields TEXT.
C6_EmptyExcluded ==
    sql_type # "unset" =>
        /\ sql_type = infer_column_type(RemoveEmpty(values))
        /\ (\A i \in 1..Len(values) : IsBlank(values[i])) => sql_type = "TEXT"

\* a sample holding an empty value beside integers has been classified
C6_Witness ==
    /\ sql_type = "INTEGER"
    /\ \E i \in 1..Len(values) : values[i] = <<>>
    /\ \E i \in 1..Len(values) : values[i] # <<>>

---------------------------------------------------------------------------
(* create_table_from_csv *)

SampleLimit == 100

\* for i, row in enumerate(reader): sample_rows.append(row); if i >= 100: break
\* The loop appends the row enumerate numbers i (from 0) and ends at the
\* first i with i >= 100, or when the reader is exhausted: LastRead is the
\* number of the last row appended, -1 when there is no data row.
LastRead(rows) ==
    IF Len(rows) - 1 >= SampleLimit THEN SampleLimit ELSE Len(rows) - 1

ReadSample(rows) == SubSeq(rows, 1, LastRead(rows) + 1)

\* [row[i] for row in sample_rows if i < len(row)], for the i-th column (from 1)
SampleValuesOf(sample_rows, i) ==
    LET has == SelectSeq(sample_rows, LAMBDA row : i <= Len(row))
    IN  [k \in 1..Len(has) |-> has[k][i]]

IdSuffix == <<"_", "i", "d">>

\* a slip that compares with the whole table name
IsPrimaryKeyWholeName(table, col) ==
    EndsWith(col, IdSuffix) /\ StartsWith(col, table)

\* col.endswith('_id') and col.startswith(table_name[:-1])
IsPrimaryKey(table, col) ==
    EndsWith(col, IdSuffix) /\ StartsWith(col, DropLast(table))

\* the column definitions joined into the CREATE TABLE statement
ColumnDefs(table, headers, sample_rows) ==
    [i \in 1..Len(headers) |->
        [name |-> headers[i],
         type |-> infer_column_type(SampleValuesOf(sample_rows, i)),
         pk   |-> IsPrimaryKey(table, headers[i])]]

\* The statement create_table_from_csv hands to cursor.execute, or the
\* StopIteration next(reader) raises on a file without a header line.
create_table_from_csv(table, file) ==
    IF file = <<>>
    THEN [raised |-> "StopIteration", table |-> table, columns |-> <<>>]
    ELSE [raised |-> "", table |-> table,
          columns |-> ColumnDefs(table, file[1], ReadSample(Tail(file)))]

ColumnTypes(stmt) == [i \in 1..Len(stmt.columns) |-> stmt.columns[i].type]
PrimaryKeys(stmt) == {i \in 1..Len(stmt.columns) : stmt.columns[i].pk}

CreateTableFromCsv ==
    /\ step \in {"ready", "rewritten"}
    /\ statement' = create_table_from_csv(table_name, csv_file)
    /\ step' = IF step = "ready" THEN "created" ELSE "recreated"
    /\ UNCHANGED <<table_name, csv_file, baseline, inferVars, pipeVars>>

---------------------------------------------------------------------------
(* The primary-key heuristic over table and column names *)

MaxTableName == 2
MaxColumnName == 4

NameAlphabet == {"a", "_", "i", "d"}

\* further columns of the header row
HeaderTails ==
    { <<>>, << <<"_", "i", "d">> >>, << <<"a", "a", "_", "i", "d">>, <<"d">> >> }

KeyRows == << << <<"1">>, <<"x">>, <<"2">> >>, << <<"2">>, <<"y">> >> >>

InitKey ==
    /\ table_name \in SeqsUpTo(NameAlphabet, MaxTableName) \ {<<>>}
    /\ \E col \in SeqsUpTo(NameAlphabet, MaxColumnName) \ {<<>>} :
       \E tail \in HeaderTails :
           /\ \A k \in 1..Len(tail) : tail[k] # col
           /\ csv_file = << <<col>> \o tail >> \o KeyRows
    /\ statement = NoStatement
    /\ baseline = NoStatement
    /\ step = "ready"
    /\ InferIdle
    /\ PipeIdle

NextKey == CreateTableFromCsv

SpecKey == InitKey /\ [][NextKey]_vars

\* C7: a column is marked PRIMARY KEY iff its name ends with "_id" and the
\* table name without its last character is a prefix of the column name.
C7_PrimaryKeyHeuristic ==
    step = "created" =>
        \A i \in 1..Len(csv_file[1]) :
            LET col == csv_file[1][i]
                n == Len(col)
                m == Len(table_name) - 1
            IN  statement.columns[i].pk <=>
                    /\ n >= 3
                    /\ col[n - 2] = "_" /\ col[n - 1] = "i" /\ col[n] = "d"
                    /\ m <= n
                    /\ \A k \in 1..m : col[k] = table_name[k]

\* the column named after the table without its last character was marked,
\* and the last column of the same header row was not
C7_Witness ==
    /\ step = "created"
    /\ Len(table_name) = 2
    /\ Len(statement.columns) = 3
    /\ csv_file[1][1] = <<table_name[1]>> \o IdSuffix
    /\ statement.columns[1].pk
    /\ ~statement.columns[3].pk

\* C10 as stated: the emitted CREATE TABLE marks at most one column as
\* PRIMARY KEY.
C10_AtMostOnePrimaryKey ==
    step = "created" => Cardinality(PrimaryKeys(statement)) <= 1

---------------------------------------------------------------------------
(* The inference sample of a long file *)

MaxRows == 102

SampleTable == <<"t", "s">>
SampleHeader == << <<"t", "_", "i", "d">>, <<"v">> >>
PlainRow == << <<"1">>, <<"1">> >>

\* rows that loosen a column's type, and a short row
OddRows ==
    { << <<"1">>, <<"x">> >>, << <<"2", ".", "5">>, <<"1">> >>, << <<"1">> >> }

\* n data rows, all plain but row p (none when p = 0)
FileOf(n, p, odd) ==
    <<SampleHeader>> \o [k \in 1..n |-> IF k = p THEN odd ELSE PlainRow]

InitSample ==
    /\ table_name = SampleTable
    /\ \E n \in 0..MaxRows : \E p \in 0..n : \E odd \in OddRows :
           csv_file = FileOf(n, p, odd)
    /\ statement = NoStatement
    /\ baseline = NoStatement
    /\ step = "ready"
    /\ InferIdle
    /\ PipeIdle

\* The file is edited between two loads: one data row after the first
\* SampleLimit data rows gets new content.
RewriteTail ==
    /\ step = "created"
    /\ \E k \in (SampleLimit + 1)..(Len(csv_file) - 1) :
       \E row \in OddRows \cup {PlainRow} :
           /\ row # csv_file[k + 1]
           /\ csv_file' = [csv_file EXCEPT ![k + 1] = row]
    /\ baseline' = statement
    /\ step' = "rewritten"
    /\ UNCHANGED <<table_name, statement, inferVars, pipeVars>>

NextSample == CreateTableFromCsv \/ RewriteTail

SpecSample == InitSample /\ [][NextSample]_vars

\* C9 as stated: the content of the rows after the 100th data row never
\* changes the inferred type of any column.
C9_TailNeverInspected ==
    step = "recreated" => ColumnTypes(statement) = ColumnTypes(baseline)

---------------------------------------------------------------------------
(* The store: SQLite behind Python's sqlite3 module.                       *)
(*                                                                         *)
(* The module opens a transaction implicitly before an INSERT and not      *)
(* before DROP TABLE or CREATE TABLE: a DDL statement run while no         *)
(* transaction is open commits at once, one run inside an open             *)
(* transaction is undone by rollback() like the rows.                      *)

\* None, the value csv.DictReader gives a field a short row lacks
None == <<"None">>

Absent == [exists |-> FALSE, columns |-> <<>>, rows |-> <<>>]

Letters == {"a", "b", "c", "d", "e", "f", "g", "h", "i", "o", "p", "s", "u",
            "v", "x", "y", "z"}

\* a name SQLite accepts unquoted
ValidIdentifier(name) ==
    /\ Len(name) > 0
    /\ name[1] \notin Digits
    /\ \A i \in 1..Len(name) : name[i] \in Letters \cup Digits \cup {"_"}

\* DROP TABLE IF EXISTS t
DropTable(db, t) == [db EXCEPT ![t] = Absent]

\* the error CREATE TABLE raises, "" when it raises none
CreateError(stmt) ==
    LET cols == stmt.columns
    IN  IF Len(cols) = 0 THEN "syntax error"
        ELSE IF \E i \in 1..Len(cols) : ~ValidIdentifier(cols[i].name)
        THEN "syntax error"
        ELSE IF \E i, j \in 1..Len(cols) : i # j /\ cols[i].name = cols[j].name
        THEN "duplicate column name"
        ELSE IF Cardinality(PrimaryKeys(stmt)) > 1
        THEN "more than one primary key"
        ELSE ""

\* CREATE TABLE IF NOT EXISTS t (...)
CreateTable(db, stmt) ==
    IF db[stmt.table].exists THEN db
    ELSE [db EXCEPT ![stmt.table] =
             [exists |-> TRUE, columns |-> stmt.columns, rows |-> <<>>]]

\* text SQLite converts to an integer for an INTEGER PRIMARY KEY column
StoresAsInteger(v) ==
    ParsesInt(v) /\ \A i \in 1..Len(v) : v[i] # "_"

\* the error inserting row raises, "" when it raises none: the row has a
\* value per column, the primary key column is unique over its non-NULL
\* values, and an INTEGER PRIMARY KEY takes integers only
RowError(table, row) ==
    LET keys == {i \in 1..Len(table.columns) : table.columns[i].pk}
    IN  IF Len(row) # Len(table.columns) THEN "wrong number of values"
        ELSE IF keys = {} THEN ""
        ELSE LET k == CHOOSE i \in keys : TRUE
                 v == row[k]
             IN  IF v = None THEN ""
                 ELSE IF table.columns[k].type = "INTEGER" /\ ~StoresAsInteger(v)
                 THEN "datatype mismatch"
                 ELSE IF \E n \in 1..Len(table.rows) :
                            /\ table.rows[n][k] # None
                            /\ Strip(table.rows[n][k]) = Strip(v)
                 THEN "UNIQUE constraint failed"
                 ELSE ""

\* cursor.executemany(insert_statement, data): row after row until one
\* raises; the rows before it stay inserted in the open transaction
RECURSIVE ExecuteMany(_, _, _)
ExecuteMany(table, data, n) ==
    IF n > Len(data) THEN [table |-> table, error |-> ""]
    ELSE IF RowError(table, data[n]) # ""
    THEN [table |-> table, error |-> RowError(table, data[n])]
    ELSE ExecuteMany([table EXCEPT !.rows = Append(@, data[n])], data, n + 1)

---------------------------------------------------------------------------
(* load_csv_to_sqlite: one file of the loop *)

\* rows = list(csv.DictReader(f)): the data rows, blank lines skipped
DictRows(lines) == SelectSeq(Tail(lines), LAMBDA row : row # <<>>)

\* [row[col] for col in headers]: None where the row is short
data_to_insert(headers, rows) ==
    [n \in 1..Len(rows) |->
        [i \in 1..Len(headers) |->
            IF i <= Len(rows[n]) THEN rows[n][i] ELSE None]]

\* a slip that leaves out the DROP TABLE
process_file_no_drop(file, w, d, txn) ==
    LET t == file.stem
        stmt == create_table_from_csv(t, file.lines)
        w2 == CreateTable(w, stmt)
        d2 == IF txn THEN d ELSE w2
        rows == DictRows(file.lines)
        ins == ExecuteMany(w2[t], data_to_insert(file.lines[1], rows), 1)
        w3 == [w2 EXCEPT ![t] = ins.table]
    IN  IF ~ValidIdentifier(t)
        THEN [raised |-> "drop", work |-> w, disk |-> d, txn |-> txn]
        ELSE IF stmt.raised # "" \/ CreateError(stmt) # ""
        THEN [raised |-> "create", work |-> w, disk |-> d, txn |-> txn]
        ELSE IF rows = <<>>
        THEN [raised |-> "", work |-> w2, disk |-> d2, txn |-> txn]
        ELSE [raised |-> IF ins.error # "" THEN "insert" ELSE "",
              work |-> w3, disk |-> d2, txn |-> TRUE]

\* The try block of one file, up to the exception it raises (raised is ""
\* when it raises none): the tables as the connection sees them, the
\* committed tables, and whether a transaction is open afterwards.
process_file(file, w, d, txn) ==
    LET t == file.stem
        w1 == DropTable(w, t)
        d1 == IF txn THEN d ELSE w1
        stmt == create_table_from_csv(t, file.lines)
        w2 == CreateTable(w1, stmt)
        d2 == IF txn THEN d ELSE w2
        rows == DictRows(file.lines)
        ins == ExecuteMany(w2[t], data_to_insert(file.lines[1], rows), 1)
        w3 == [w2 EXCEPT ![t] = ins.table]
    IN  IF ~ValidIdentifier(t)
        THEN [raised |-> "drop", work |-> w, disk |-> d, txn |-> txn]
        ELSE IF stmt.raised # "" \/ CreateError(stmt) # ""
        THEN [raised |-> "create", work |-> w1, disk |-> d1, txn |-> txn]
        ELSE IF rows = <<>>
        THEN [raised |-> "", work |-> w2, disk |-> d2, txn |-> txn]
        ELSE [raised |-> IF ins.error # "" THEN "insert" ELSE "",
              work |-> w3, disk |-> d2, txn |-> TRUE]

\* SELECT COUNT(*) over every table of sqlite_master
RowCounts(db) ==
    [t \in {x \in DOMAIN db : db[x].exists} |-> Len(db[t].rows)]

---------------------------------------------------------------------------
(* The data directory and the store before the run *)

MaxFiles == 3

IdColumn(c) == <<c, "_", "i", "d">>

\* three rows under an INTEGER PRIMARY KEY
UsersFile ==
    [stem |-> <<"u", "s">>,
     lines |-> << <<IdColumn("u"), <<"d">>>>,
                  << <<"1">>, <<"x">> >>,
                  << <<"2">>, <<"y">> >>,
                  << <<"3">>, <<"z">> >> >>]

\* the second row repeats the primary key of the first
RepeatedKeyFile ==
    [stem |-> <<"b", "s">>,
     lines |-> << <<IdColumn("b"), <<"d">>>>,
                  << <<"1">>, <<"x">> >>,
                  << <<"1">>, <<"y">> >> >>]

\* no key column; a blank line and a short row
RaggedFile ==
    [stem |-> <<"c", "s">>,
     lines |-> << << <<"c">>, <<"d">> >>,
                  << <<"1">>, <<"x">> >>,
                  <<>>,
                  << <<"2">> >> >>]

\* no line at all
EmptyFile == [stem |-> <<"d", "s">>, lines |-> <<>>]

\* a header and no row
HeaderOnlyFile ==
    [stem |-> <<"e", "s">>, lines |-> << <<IdColumn("e"), <<"d">>>> >>]

\* two columns the heuristic marks
TwoKeysFile ==
    [stem |-> <<"f", "s">>,
     lines |-> << <<IdColumn("f"), <<"f", "x", "_", "i", "d">>>>,
                  << <<"1">>, <<"2">> >> >>]

\* a stem that is no SQL identifier
BadStemFile ==
    [stem |-> <<"g", "-", "h">>,
     lines |-> << << <<"d">> >>, << <<"x">> >> >>]

CsvFiles == {UsersFile, RepeatedKeyFile, RaggedFile, EmptyFile, HeaderOnlyFile,
             TwoKeysFile, BadStemFile}

Stems == {f.stem : f \in CsvFiles}

\* a directory listing: files of distinct names in the order glob yields
Directories ==
    {dir \in SeqsUpTo(CsvFiles, MaxFiles) :
        \A i, j \in 1..Len(dir) : i # j => dir[i].stem # dir[j].stem}

\* a table an earlier load left in the store
LegacyTable ==
    [exists |-> TRUE,
     columns |-> << [name |-> <<"z">>, type |-> "TEXT", pk |-> FALSE] >>,
     rows |-> << << <<"o">> >> >>]

LegacyStems ==
    {UsersFile.stem, RepeatedKeyFile.stem, RaggedFile.stem, EmptyFile.stem}

PriorStores ==
    {[t \in Stems |-> IF t \in had THEN LegacyTable ELSE Absent] :
        had \in SUBSET LegacyStems}

NoFile == [stem |-> <<>>, raised |-> "", before |-> Absent]
NoRun == [counts |-> <<>>, committed |-> FALSE]

InitIngest ==
    /\ program = "ingest"
    /\ pc = "start"
    /\ conn = "unbound"
    /\ data_exists \in BOOLEAN
    /\ csv_files \in (IF data_exists THEN Directories ELSE {<<>>})
    /\ disk \in PriorStores
    /\ work = disk
    /\ in_transaction = FALSE
    /\ idx = 1
    /\ completed = {}
    /\ failed = {}
    /\ last = NoFile
    /\ committed = FALSE
    /\ summary = <<>>
    /\ run_no = 1
    /\ first_run = NoRun
    /\ result = NoResult
    /\ printed = NothingPrinted
    /\ InferIdle
    /\ CreateIdle

---------------------------------------------------------------------------
(* load_csv_to_sqlite *)

\* not data_path.exists(): return; not csv_files: return
LoadStart ==
    /\ program = "ingest" /\ pc = "start"
    /\ pc' = IF ~data_exists \/ csv_files = <<>> THEN "returned" ELSE "connect"
    /\ UNCHANGED <<inferVars, createVars, program, conn, data_exists, csv_files, disk, work,
                   in_transaction, idx, completed, failed, last, committed,
                   summary, run_no, first_run, result, printed>>

\* sqlite3.connect(db_path) and the PRAGMA; either may raise sqlite3.Error,
\* which the outer handler logs before the finally block runs
LoadConnect ==
    /\ program = "ingest" /\ pc = "connect"
    /\ \E fault \in {"none", "connect", "pragma"} :
          /\ conn' = IF fault = "connect" THEN "unbound" ELSE "open"
          /\ pc' = IF fault = "none" THEN "loop" ELSE "finally"
    /\ UNCHANGED <<inferVars, createVars, program, data_exists, csv_files, disk, work,
                   in_transaction, idx, completed, failed, last, committed,
                   summary, run_no, first_run, result, printed>>

\* One pass of the loop over csv_files: the try block, and on an exception
\* the handler's conn.rollback() and continue.  A rollback that raises
\* leaves the loop for the outer handler.
ProcessFile ==
    /\ program = "ingest" /\ pc = "loop"
    /\ idx <= Len(csv_files)
    /\ LET file == csv_files[idx]
           out == process_file(file, work, disk, in_transaction)
       IN  /\ last' = [stem |-> file.stem, raised |-> out.raised,
                       before |-> work[file.stem]]
           /\ disk' = out.disk
           /\ IF out.raised = ""
              THEN /\ work' = out.work
                   /\ in_transaction' = out.txn
                   /\ completed' = completed \cup {file.stem}
                   /\ failed' = failed
                   /\ idx' = idx + 1
                   /\ pc' = "loop"
              ELSE /\ failed' = failed \cup {file.stem}
                   /\ completed' = completed
                   /\ \E rollback_raises \in BOOLEAN :
                         IF rollback_raises
                         THEN /\ work' = out.work
                              /\ in_transaction' = out.txn
                              /\ idx' = idx
                              /\ pc' = "finally"
                         ELSE /\ work' = out.disk
                              /\ in_transaction' = FALSE
                              /\ idx' = idx + 1
                              /\ pc' = "loop"
    /\ UNCHANGED <<inferVars, createVars, program, conn, data_exists, csv_files, committed, summary,
                   run_no, first_run, result, printed>>

\* conn.commit() after the loop
LoadCommit ==
    /\ program = "ingest" /\ pc = "loop"
    /\ idx > Len(csv_files)
    /\ \E commit_raises \in BOOLEAN :
          IF commit_raises
          THEN /\ pc' = "finally"
               /\ UNCHANGED <<disk, in_transaction, committed>>
          ELSE /\ disk' = work
               /\ in_transaction' = FALSE
               /\ committed' = TRUE
               /\ pc' = "summary"
    /\ UNCHANGED <<inferVars, createVars, program, conn, data_exists, csv_files, work, idx,
                   completed, failed, last, summary, run_no, first_run,
                   result, printed>>

\* the DATABASE SUMMARY: every table of the store with its row count
LoadSummary ==
    /\ program = "ingest" /\ pc = "summary"
    /\ \E query_raises \in BOOLEAN :
          summary' = IF query_raises THEN <<>> ELSE RowCounts(work)
    /\ pc' = "finally"
    /\ UNCHANGED <<inferVars, createVars, program, conn, data_exists, csv_files, disk, work,
                   in_transaction, idx, completed, failed, last, committed,
                   run_no, first_run, result, printed>>

\* finally: if conn: conn.close().  conn is a local that connect() never
\* bound when it raised: reading it raises UnboundLocalError, which leaves
\* the function.  close() drops what was not committed.
LoadFinally ==
    /\ program = "ingest" /\ pc = "finally"
    /\ IF conn = "unbound"
       THEN /\ pc' = "raised"
            /\ UNCHANGED <<conn, work, in_transaction>>
       ELSE /\ pc' = "returned"
            /\ conn' = "closed"
            /\ work' = disk
            /\ in_transaction' = FALSE
    /\ UNCHANGED <<inferVars, createVars, program, data_exists, csv_files, disk, idx, completed,
                   failed, last, committed, summary, run_no, first_run,
                   result, printed>>

\* The loader is run again on the same directory.
LoadAgain ==
    /\ program = "ingest" /\ pc = "returned"
    /\ run_no = 1
    /\ run_no' = 2
    /\ first_run' = [counts |-> RowCounts(disk), committed |-> committed]
    /\ pc' = "start"
    /\ conn' = "unbound"
    /\ idx' = 1
    /\ completed' = {}
    /\ failed' = {}
    /\ last' = NoFile
    /\ committed' = FALSE
    /\ summary' = <<>>
    /\ UNCHANGED <<inferVars, createVars, program, data_exists, csv_files, disk, work,
                   in_transaction, result, printed>>

---------------------------------------------------------------------------
(* Claims about load_csv_to_sqlite *)

\* the rows the loader inserts for a file
RowsOf(file) == data_to_insert(file.lines[1], DictRows(file.lines))

\* C1 as stated: when a file of the run raised, every file of the run
\* processed without an exception has its table in the store, with all of
\* its rows, after the final commit.
C1_PerFileIsolation ==
    (program = "ingest" /\ pc = "summary" /\ failed # {}) =>
        \A i \in 1..Len(csv_files) :
            csv_files[i].stem \in completed =>
                /\ disk[csv_files[i].stem].exists
                /\ disk[csv_files[i].stem].rows = RowsOf(csv_files[i])

\* C2 as stated: after the handler of a file that raised, the table named
\* after the file is as it was before the file was processed, and the loop
\* goes on.
C2_RollbackRestoresTable ==
    (program = "ingest" /\ pc = "loop" /\ last.raised # "") =>
        work[last.stem] = last.before

\* C3: a second run on the unchanged directory leaves every table with the
\* row count the first run left, whatever the store held before the first
\* run and whichever files fail or are header-only.
C3_ReloadIdempotent ==
    (program = "ingest" /\ run_no = 2 /\ pc = "returned"
        /\ committed /\ first_run.committed) =>
        RowCounts(disk) = first_run.counts

\* both runs committed a directory with a loaded file, a file that raised
\* and a table the store held before
C3_Witness ==
    /\ program = "ingest" /\ run_no = 2 /\ pc = "returned"
    /\ committed /\ first_run.committed
    /\ failed # {} /\ completed # {}
    /\ \E t \in DOMAIN first_run.counts : first_run.counts[t] > 1
    /\ \E t \in LegacyStems : disk[t] = LegacyTable

\* C4 as stated: no failure leaves load_csv_to_sqlite or run_queries as an
\* exception.
C4_NoFailurePropagates == pc # "raised"

---------------------------------------------------------------------------
(* execute_query *)

MaxColumnWidth == 25

Min2(a, b) == IF a < b THEN a ELSE b
Max2(a, b) == IF a > b THEN a ELSE b

\* the values a row of the result set holds
NullValue == [kind |-> "null", int |-> 0, text |-> <<>>]
IntValue(n) == [kind |-> "int", int |-> n, text |-> <<>>]
TextValue(s) == [kind |-> "text", int |-> 0, text |-> s]

DigitChars == <<"0", "1", "2", "3", "4", "5", "6", "7", "8", "9">>

RECURSIVE DecimalOf(_)
DecimalOf(n) ==
    IF n < 10 THEN <<DigitChars[n + 1]>>
    ELSE DecimalOf(n \div 10) \o <<DigitChars[(n % 10) + 1]>>

\* str(val)
Str(v) ==
    CASE v.kind = "null" -> <<"N", "o", "n", "e">>
      [] v.kind = "int" ->
            IF v.int < 0 THEN <<"-">> \o DecimalOf(-v.int) ELSE DecimalOf(v.int)
      [] v.kind = "text" -> v.text

\* for row in rows: max_width = max(max_width, len(str(row[i])))
RECURSIVE MaxWidth(_, _, _, _)
MaxWidth(rows, i, n, max_width) ==
    IF n > Len(rows) THEN max_width
    ELSE MaxWidth(rows, i, n + 1, Max2(max_width, Len(Str(rows[n][i]))))

\* col_widths: max_width starts at len(col) and is capped at 25
ColWidths(columns, rows) ==
    [i \in 1..Len(columns) |->
        Min2(MaxWidth(rows, i, 1, Len(columns[i])), MaxColumnWidth)]

Repeat(c, n) == [k \in 1..n |-> c]

\* str.ljust
Ljust(s, w) == IF Len(s) >= w THEN s ELSE s \o Repeat(" ", w - Len(s))

\* a slip that pads without truncating
CellUncut(s, w) == Ljust(s, w)

\* s[:w].ljust(w)
Cell(s, w) == Ljust(Slice(s, 0, w), w)

\* sep.join(parts)
RECURSIVE Join(_, _)
Join(parts, sep) ==
    IF Len(parts) = 0 THEN <<>>
    ELSE IF Len(parts) = 1 THEN parts[1]
    ELSE parts[1] \o sep \o Join(Tail(parts), sep)

BorderLine(widths) ==
    <<"+">> \o Join([i \in 1..Len(widths) |-> Repeat("-", widths[i] + 2)], <<"+">>)
            \o <<"+">>

\* "| " + " | ".join(parts) + " |"
TableLine(parts) == <<"|", " ">> \o Join(parts, <<" ", "|", " ">>) \o <<" ", "|">>

\* What execute_query prints for a result set: the notice for an empty one,
\* else the border, the header, the border, a line per row, the border and
\* the total.
execute_query(columns, rows) ==
    IF rows = <<>>
    THEN [no_results |-> TRUE, col_widths |-> <<>>, lines |-> <<>>, total |-> 0]
    ELSE LET col_widths == ColWidths(columns, rows)
             header_parts ==
                 [i \in 1..Len(columns) |-> Cell(columns[i], col_widths[i])]
             border == BorderLine(col_widths)
             row_line(row) ==
                 TableLine([i \in 1..Len(row) |-> Cell(Str(row[i]), col_widths[i])])
         IN  [no_results |-> FALSE,
              col_widths |-> col_widths,
              lines |-> <<border, TableLine(header_parts), border>>
                        \o [n \in 1..Len(rows) |-> row_line(rows[n])]
                        \o <<border>>,
              total |-> Len(rows)]

---------------------------------------------------------------------------
(* run_queries *)

MaxResultRows == 2
MaxText == 27

\* n characters, no two neighbours alike
Text(n) == [k \in 1..n |-> <<"a", "b", "c">>[((k - 1) % 3) + 1]]

ColumnNames == {Text(4), Text(MaxText - 1)}

CellValues ==
    {NullValue, IntValue(-120), TextValue(Text(2)),
     TextValue(Text(MaxColumnWidth)), TextValue(Text(MaxText))}

\* the result sets the join query may return
ResultSets ==
    UNION { [columns : [1..c -> ColumnNames],
             rows : SeqsUpTo([1..c -> CellValues], MaxResultRows)] : c \in 1..2 }

InitAnalytics ==
    /\ program = "analytics"
    /\ pc = "start"
    /\ conn = "unbound"
    /\ data_exists \in BOOLEAN
    /\ csv_files = <<>>
    /\ disk = <<>>
    /\ work = <<>>
    /\ in_transaction = FALSE
    /\ idx = 0
    /\ completed = {}
    /\ failed = {}
    /\ last = NoFile
    /\ committed = FALSE
    /\ summary = <<>>
    /\ run_no = 1
    /\ first_run = NoRun
    /\ result = NoResult
    /\ printed = NothingPrinted
    /\ InferIdle
    /\ CreateIdle

\* not db_path.exists(): return
QueryStart ==
    /\ program = "analytics" /\ pc = "start"
    /\ pc' = IF data_exists THEN "connect" ELSE "returned"
    /\ UNCHANGED <<inferVars, createVars, program, conn, data_exists,
                   csv_files, disk, work, in_transaction, idx, completed,
                   failed, last, committed, summary, run_no, first_run,
                   result, printed>>

\* sqlite3.connect(db_path), which may raise sqlite3.Error
QueryConnect ==
    /\ program = "analytics" /\ pc = "connect"
    /\ \E connect_raises \in BOOLEAN :
          /\ conn' = IF connect_raises THEN "unbound" ELSE "open"
          /\ pc' = IF connect_raises THEN "finally" ELSE "query"
    /\ UNCHANGED <<inferVars, createVars, program, data_exists,
                   csv_files, disk, work, in_transaction, idx, completed,
                   failed, last, committed, summary, run_no, first_run,
                   result, printed>>

\* execute_query(cursor, query, ...): the query raises sqlite3.Error, which
\* execute_query logs, or returns a result set, which it prints
ExecuteQuery ==
    /\ program = "analytics" /\ pc = "query"
    /\ \/ UNCHANGED <<result, printed>>
       \/ \E rs \in ResultSets :
             /\ result' = rs
             /\ printed' = execute_query(rs.columns, rs.rows)
    /\ pc' = "finally"
    /\ UNCHANGED <<inferVars, createVars, program, conn, data_exists,
                   csv_files, disk, work, in_transaction, idx, completed,
                   failed, last, committed, summary, run_no, first_run>>

\* finally: if conn: conn.close(), with conn unbound when connect() raised
QueryFinally ==
    /\ program = "analytics" /\ pc = "finally"
    /\ IF conn = "unbound"
       THEN pc' = "raised" /\ UNCHANGED conn
       ELSE pc' = "returned" /\ conn' = "closed"
    /\ UNCHANGED <<inferVars, createVars, program, data_exists,
                   csv_files, disk, work, in_transaction, idx, completed,
                   failed, last, committed, summary, run_no, first_run,
                   result, printed>>

---------------------------------------------------------------------------
(* The two entry points *)

Init == InitIngest \/ InitAnalytics

Next ==
    \/ LoadStart
    \/ LoadConnect
    \/ ProcessFile
    \/ LoadCommit
    \/ LoadSummary
    \/ LoadFinally
    \/ LoadAgain
    \/ QueryStart
    \/ QueryConnect
    \/ ExecuteQuery
    \/ QueryFinally

Spec == Init /\ [][Next]_vars

---------------------------------------------------------------------------
(* Claims about execute_query *)

\* the characters of the i-th cell of a printed table line
CellAt(line, widths, i) ==
    LET RECURSIVE Before(_)
        Before(j) == IF j = 0 THEN 2 ELSE Before(j - 1) + widths[j] + 3
    IN  SubSeq(line, Before(i - 1) + 1, Before(i - 1) + widths[i])

\* the lengths the width of column i is taken over
LengthsOf(i) ==
    {Len(result.columns[i])}
        \cup {Len(Str(result.rows[n][i])) : n \in 1..Len(result.rows)}

\* s cut to w characters, or filled with spaces on the right up to w
Rendered(cell, s, w) ==
    /\ Len(cell) = w
    /\ \A k \in 1..w : cell[k] = (IF k <= Len(s) THEN s[k] ELSE " ")

\* C8: for a non-empty result set each column's width is min(25, max(header
\* length, longest stringified value)), and the header cell and every
\* value cell of the column is left-justified and truncated or padded to
\* exactly that width.
C8_ColumnWidth ==
    (program = "analytics" /\ result.rows # <<>>) =>
        /\ ~printed.no_results
        /\ Len(printed.lines) = Len(result.rows) + 4
        /\ \A i \in 1..Len(result.columns) :
            LET w == printed.col_widths[i]
            IN  /\ w <= MaxColumnWidth
                /\ \A n \in LengthsOf(i) : w >= Min2(n, MaxColumnWidth)
                /\ \E n \in LengthsOf(i) : w = Min2(n, MaxColumnWidth)
                /\ Rendered(CellAt(printed.lines[2], printed.col_widths, i),
                            result.columns[i], w)
                /\ \A n \in 1..Len(result.rows) :
                      Rendered(CellAt(printed.lines[n + 3], printed.col_widths, i),
                               Str(result.rows[n][i]), w)

\* a table was printed with a column cut to 25, holding a longer header
\* over a shorter value, beside a column narrower than 25
C8_Witness ==
    /\ program = "analytics" /\ pc = "returned"
    /\ Len(result.columns) = 2 /\ Len(result.rows) = 2
    /\ printed.col_widths[1] = MaxColumnWidth
    /\ Len(result.columns[1]) > MaxColumnWidth
    /\ Len(Str(result.rows[1][1])) < MaxColumnWidth
    /\ printed.col_widths[2] < MaxColumnWidth
    /\ result.rows[2][2] = NullValue

=============================================================================
